---- MODULE Spec2Model ----
(***************************************************************************)
(* Model of the coincidence-data aggregation script                        *)
(* src/data_analysis/datfileanalysis.py: the index arithmetic, the two     *)
(* scatter-add accumulators, the top-K extraction and the three writes.    *)
(* The artifacts are kept as the bytes tofile writes; the visualization's   *)
(* readers of src/qtuitest.py (import_event_counts, import_top_lors) read   *)
(* them back.                                                               *)
(*                                                                         *)
(* Integers wider than 32 bits are kept as limbs, because the narrowing    *)
(* astype(np.int32) is what several properties are about:                  *)
(*   an int64 v is [hi, l1, l0] with v = hi*2^32 + l1*2^16 + l0,           *)
(*   0 <= l1, l0 < 2^16.                                                   *)
(***************************************************************************)
EXTENDS Integers, Sequences, FiniteSets, TLC

VARIABLES
    coinc_dat_files,  \* the .dat files of the directory (line 15), each a sequence of runs of lines
    i,                \* index of the file being processed (line 22), 1-based
    pc,               \* position of the script
    pos,              \* lines of file i already delivered by the chunk reader
    channelcounts,    \* line 18: per file, 2*Ring int32 counters
    lorcounts,        \* line 19: per file, Ring x Ring int16 counters
    toplors,          \* line 20: per file, K rows <<idl, idr, count>>
    disk,             \* per file, the artifacts written (lines 43-53) or NoFile
    records,          \* history: per file, number of lines applied to the accumulators
    tally,            \* history: per file, unbounded count per addressed cell
    skipped,          \* history: per file, malformed lines that were applied as if valid
    run,              \* which execution of the script this is
    prev,             \* the artifacts the preceding execution left on disk
    raw,              \* a raw (L, R) pair handed to the index arithmetic alone
    mapped,           \* its result, or NoResult
    loaded_lor_data,  \* qtuitest.py line 55: MainWindow.loaded_lor_data, the imported top list or None
    top_n_timer,      \* qtuitest.py lines 58-60: whether the single-shot render timer is running
    lor_raw,          \* qtuitest.py line 408: raw, what the last import_top_lors read from its file
    lor_dialog,       \* the message box import_top_lors showed last
    renders,          \* history: renders performed since the render timer was last started
    burst,            \* history: starts of the render timer since it last fired, counted up to MaxBurst
    top_n_spin,       \* qtuitest.py lines 256-259: value of the top-N spin box
    draw_mode_enabled,  \* qtuitest.py line 229: MainWindow.draw_mode_enabled
    connections,      \* scannertest.py line 57: the connections, in list order
    connection_counter,  \* scannertest.py line 58: the next connection id
    selected_crystals,   \* scannertest.py line 55: crystals clicked and not yet paired
    draw_mode,        \* scannertest.py line 60
    last_op,          \* history: the last call of a connection function and what it returned
    hovered_crystal,  \* scannertest.py line 53: the crystal under the mouse, or none
    event_counts,     \* scannertest.py lines 77-87: event count per crystal
    event_count_scalars,           \* scannertest.py line 164: the displayed scalar per mesh cell
    original_event_count_scalars,  \* scannertest.py line 173: the scalars without hover darkening
    self_event_counts,             \* qtuitest.py line 49: MainWindow.event_counts
    update_event_counts_func,      \* qtuitest.py line 156: whether the update function is set
    counts_raw,       \* qtuitest.py line 291: data, what the last import_event_counts read
    counts_dialog     \* the message box import_event_counts showed last

lorVars == <<loaded_lor_data, top_n_timer, lor_raw, lor_dialog, renders, burst>>

sceneVars == <<top_n_spin, draw_mode_enabled, connections, connection_counter,
               selected_crystals, draw_mode, last_op>>

hoverVars == <<hovered_crystal, event_counts, event_count_scalars, original_event_count_scalars,
               self_event_counts, update_event_counts_func, counts_raw, counts_dialog>>

guiVars == <<lorVars, sceneVars, hoverVars>>

vars == <<coinc_dat_files, i, pc, pos, channelcounts, lorcounts, toplors, disk,
          records, tally, skipped, run, prev, raw, mapped, guiVars>>

pipeVars == <<coinc_dat_files, i, pc, pos, channelcounts, lorcounts, toplors, disk,
              records, tally, skipped, run, prev>>

-----------------------------------------------------------------------------
(* Program constants *)

OFFSET == 131072        \* line 24: ring offset subtracted from the raw left id
RING == 3072            \* lines 24-25: ring size, the modulus
CHUNKSIZE == 1000000    \* line 23: lines per chunk
MaxInt32 == 2147483647  \* np.int32
MaxInt16 == 32767       \* np.int16
Limb == 65536

MinInt32 == (-MaxInt32) - 1
MinInt16 == (-MaxInt16) - 1

(* Bounds of the model *)

Ring == 4        \* rows and columns of the modelled LOR matrix (3072 in the source)
K == 3           \* rows of the modelled top list (1000 in the source)
MaxRuns == 3     \* runs of identical lines per modelled file
MaxFiles == 2    \* .dat files in a modelled directory of several files
MaxIds == 6      \* connection ids the modelled scene issues
MaxBurst == 2    \* starts of the render timer that are told apart
CellsPerCrystal == 2   \* mesh cells per modelled crystal (6, the faces of a box, in the source)
DefaultTopN == K - 1   \* the spin box's initial value (100 of 1..1000 in the source)

NoResult == [none |-> TRUE]
NoFile == [absent |-> TRUE]

\* qtuitest.py line 55: loaded_lor_data = None
NoLorData == [loaded |-> FALSE, rows |-> << >>]

\* no file has been read (none chosen yet, or open raised)
NoRaw == [read |-> FALSE, bytes |-> << >>]

\* qtuitest.py lines 55-60: the window as constructed, nothing imported, timer stopped
LorInit ==
    /\ loaded_lor_data = NoLorData
    /\ top_n_timer = "stopped"
    /\ renders = 0
    /\ burst = 0
    /\ lor_raw = NoRaw
    /\ lor_dialog = "none"

-----------------------------------------------------------------------------
(* Fixed-width integers *)

\* int64 from a small integer
I64(v) == [hi |-> IF v < 0 THEN -1 ELSE 0, l1 |-> (v \div Limb) % Limb, l0 |-> v % Limb]

\* astype(np.int32) of an int64: the low 32 bits, read as two's complement
Narrow32(x) == IF x.l1 >= 32768 THEN (x.l1 - Limb) * Limb + x.l0 ELSE x.l1 * Limb + x.l0

\* int32 - c with wraparound, 0 <= c <= MaxInt32
Sub32(x, c) == IF x >= MinInt32 + c THEN x - c ELSE ((x - MinInt32) + (MaxInt32 - c)) + 1

\* int32 + n with wraparound, 0 <= n <= MaxInt32
Add32(x, n) == IF x <= MaxInt32 - n THEN x + n ELSE ((x - MaxInt32) + (n - 1)) + MinInt32

\* int16 + n with wraparound, n >= 0: n successive adds of 1, each wrapping
Add16(x, n) == ((x + n + MaxInt16 + 1) % Limb) - (MaxInt16 + 1)

\* C-style remainder (sign of the dividend)
TruncRem(a, m) == IF a >= 0 THEN a % m ELSE -((-(a + m)) % m)
\* numpy's % on integers: sign of the divisor
NpMod(a, m) == a % m

-----------------------------------------------------------------------------
(* Lines 24, 25 and 28: the index arithmetic on int32 values *)

idl_of(L32, ring) == NpMod(Sub32(L32, OFFSET), ring)
idr_of(R32, ring) == NpMod(R32, ring) + ring
IndexMapper(L32, R32, ring) ==
    [idl |-> idl_of(L32, ring),
     idr_global |-> idr_of(R32, ring),
     idr_local |-> idr_of(R32, ring) - ring]

\* the mathematical floor modulo of an int64, and of (int64 - OFFSET)
P16(m) == Limb % m
P32(m) == (P16(m) * P16(m)) % m
floor_mod(x, m) == (((x.hi % m) * P32(m)) + ((x.l1 % m) * P16(m)) + (x.l0 % m)) % m
floor_mod_minus(x, c, m) == (floor_mod(x, m) + (m - (c % m))) % m

\* raw ids tried on the index arithmetic: small, negative, at the int32 limits, beyond them
RawIds ==
    { I64(0), I64(1), I64(3071), I64(3072), I64(131071), I64(OFFSET), I64(OFFSET + 3),
      I64(-1), I64(-3073), I64(MaxInt32), I64(MinInt32), I64(MinInt32 + 5),
      [hi |-> 0, l1 |-> 32768, l0 |-> 0],          \* 2^31
      [hi |-> 1, l1 |-> 2, l0 |-> 0],              \* 2^32 + 131072
      [hi |-> -2, l1 |-> 65535, l0 |-> 65535],     \* -2^32 - 1
      [hi |-> MaxInt32, l1 |-> 65535, l0 |-> 65535] }  \* 2^63 - 1

-----------------------------------------------------------------------------
(* The input: lines of a .dat file, fields 4 and 9 as read_csv sees them *)

IntF(v) == [kind |-> "int", v |-> I64(v)]       \* an integer literal
FloatF(t) == [kind |-> "float", v |-> I64(t)]   \* a decimal literal such as "131072.5"; t is its integer part, |t| < 2^31
MissingF == [kind |-> "missing", v |-> I64(0)]       \* the field is absent or empty
TextF == [kind |-> "text", v |-> I64(0)]             \* not a number

\* short: the line has fewer than 10 fields (field 9 is then missing)
Ln(l, r, s) == [L |-> l, R |-> r, short |-> s]
Rn(line, n) == [line |-> line, n |-> n]

ValidA == Ln(IntF(OFFSET), IntF(0), FALSE)          \* maps to cell (0, 0)
ValidB == Ln(IntF(OFFSET + 3), IntF(1), FALSE)      \* maps to cell (3, 1)
Negative == Ln(IntF(-1), IntF(-1), FALSE)           \* negative raw ids
Decimal == Ln(FloatF(OFFSET), IntF(0), FALSE)       \* field 4 is "131072.5"
ShortLine == Ln(IntF(OFFSET), MissingF, TRUE)       \* fewer than 10 fields
NotANumber == Ln(TextF, IntF(0), FALSE)             \* field 4 is not numeric
ValidC == Ln(IntF(OFFSET + 1), IntF(2), FALSE)      \* maps to cell (1, 2)
ValidD == Ln(IntF(OFFSET + 2), IntF(3), FALSE)      \* maps to cell (2, 3)
ValidE == Ln(IntF(OFFSET + 1), IntF(0), FALSE)      \* maps to cell (1, 0)

CoreRuns == { Rn(ValidA, 1), Rn(ValidB, 1) }

\* files that exercise the counter width, a second chunk, negative ids and malformed lines
SpecialFiles ==
    { << Rn(ValidB, 1), Rn(ValidA, MaxInt16), Rn(ValidA, 1) >>,
      << Rn(ValidB, 1), Rn(ValidA, MaxInt16) >>,
      << Rn(ValidB, 1), Rn(ValidA, CHUNKSIZE), Rn(ValidA, 1) >>,
      << Rn(ValidB, 1), Rn(Negative, 1) >>,
      << Rn(ValidB, 1), Rn(Decimal, 1) >>,
      << Rn(ValidB, 1), Rn(ShortLine, 1) >>,
      << Rn(ShortLine, 1), Rn(ValidB, 1) >>,
      << Rn(ValidB, 1), Rn(NotANumber, 1) >>,
      << Rn(ValidB, CHUNKSIZE), Rn(NotANumber, 1) >> }

RECURSIVE SeqsUpTo(_, _)
SeqsUpTo(S, n) ==
    IF n = 0 THEN { << >> }
    ELSE LET shorter == SeqsUpTo(S, n - 1)
         IN shorter \cup { Append(q, x) : q \in { t \in shorter : Len(t) = n - 1 }, x \in S }

DatFiles == SeqsUpTo(CoreRuns, MaxRuns) \cup SpecialFiles

\* the files a directory of several files is made of: the same lines in two orders, for a
\* small file, for a file that exceeds the int16 range and for a file of two chunks; a file
\* with text in the first chunk, one with text in the second chunk, and an empty file
SmallFile == << Rn(ValidA, 4), Rn(ValidB, 3), Rn(ValidC, 2), Rn(ValidD, 1) >>
SmallFileReordered == << Rn(ValidD, 1), Rn(ValidA, 2), Rn(ValidC, 2), Rn(ValidB, 3), Rn(ValidA, 2) >>
WideFile ==
    << Rn(ValidA, MaxInt16 + 1), Rn(ValidB, 3), Rn(ValidC, 2), Rn(ValidD, 1), Rn(ValidE, 5) >>
WideFileReordered ==
    << Rn(ValidD, 1), Rn(ValidE, 5), Rn(ValidC, 2), Rn(ValidA, MaxInt16 + 1), Rn(ValidB, 3) >>
LongFile == << Rn(ValidA, CHUNKSIZE), Rn(ValidB, 3), Rn(ValidC, 2), Rn(ValidD, 1) >>
LongFileReordered == << Rn(ValidD, 1), Rn(ValidC, 2), Rn(ValidB, 3), Rn(ValidA, CHUNKSIZE) >>
TextFile == << Rn(ValidA, 4), Rn(ValidB, 3), Rn(ValidC, 2), Rn(NotANumber, 1) >>
LateTextFile == << Rn(ValidA, CHUNKSIZE), Rn(ValidB, 3), Rn(ValidC, 2), Rn(NotANumber, 1) >>
EmptyFile == << >>

BatchFiles ==
    { SmallFile, SmallFileReordered, WideFile, WideFileReordered, LongFile, LongFileReordered,
      TextFile, LateTextFile, EmptyFile }

RECURSIVE NLinesUpTo(_, _)
NLinesUpTo(f, k) == IF k = 0 THEN 0 ELSE NLinesUpTo(f, k - 1) + f[k].n
NLines(f) == NLinesUpTo(f, Len(f))

Min2(a, b) == IF a < b THEN a ELSE b
Max2(a, b) == IF a > b THEN a ELSE b

\* a reader that loses the first line of every chunk after the first
ChunkAtSkipping(f, from, to) ==
    LET start == IF from > 0 THEN from + 1 ELSE from
        piece(k) == Max2(0, Min2(NLinesUpTo(f, k), to) - Max2(NLinesUpTo(f, k - 1), start))
        all == [k \in 1..Len(f) |-> Rn(f[k].line, piece(k))]
    IN SelectSeq(all, LAMBDA r : r.n > 0)

\* lines [from, to) of the file, as runs
ChunkAt(f, from, to) ==
    LET piece(k) == Max2(0, Min2(NLinesUpTo(f, k), to) - Max2(NLinesUpTo(f, k - 1), from))
        all == [k \in 1..Len(f) |-> Rn(f[k].line, piece(k))]
    IN SelectSeq(all, LAMBDA r : r.n > 0)

\* dtype read_csv infers for one column of one chunk
ColDtype(fields) ==
    IF \E x \in fields : x.kind = "text" THEN "object"
    ELSE IF \E x \in fields : x.kind \in {"float", "missing"} THEN "float64"
    ELSE "int64"

FitsInt32(x) == (x.hi = 0 /\ x.l1 < 32768) \/ (x.hi = -1 /\ x.l1 >= 32768)

\* what a float64 -> int32 cast of NaN (or of a value out of range) can yield
UndefinedCasts == {MinInt32, 0}

\* .values.astype(np.int32) on one element of a column of the given dtype
AsInt32(x, dtype, ub) ==
    IF dtype = "int64" THEN Narrow32(x.v)
    ELSE IF x.kind \in {"int", "float"} /\ FitsInt32(x.v) THEN Narrow32(x.v)
    ELSE ub

Malformed(line) == line.short \/ line.L.kind # "int" \/ line.R.kind # "int"

-----------------------------------------------------------------------------
(* The accumulators *)

Channels == 0 .. (2 * Ring - 1)
Side == 0 .. (Ring - 1)

ZeroChannels == [c \in Channels |-> 0]
ZeroMatrix == [l \in Side |-> [r \in Side |-> 0]]
ZeroTop == [k \in 1..K |-> <<0, 0, 0>>]

\* a[idx] += 1 with fancy indexing: repeated indices count once
BufferedAdd32(a, idx, n) == [a EXCEPT ![idx] = Add32(@, 1)]
\* np.add.at(a, idx, 1) for n occurrences of idx, int32
AddAt32(a, idx, n) == [a EXCEPT ![idx] = Add32(@, n)]

\* the matrix indexed (right, left) instead of (left, right)
AddAt16Transposed(m, l, r, n) == [m EXCEPT ![r][l] = Add16(@, n)]

\* m[l, r] += 1 with fancy indexing: repeated index pairs count once
BufferedAdd16(m, l, r, n) == [m EXCEPT ![l][r] = Add16(@, 1)]

\* np.add.at(m, (l, r), 1) for n occurrences of (l, r), int16
AddAt16(m, l, r, n) == [m EXCEPT ![l][r] = Add16(@, n)]

\* lines 24-29 for the runs k.. of one chunk
RECURSIVE ApplyRuns(_, _, _, _, _, _)
ApplyRuns(acc, chunk, k, d0, d1, ub) ==
    IF k > Len(chunk) THEN acc
    ELSE LET ln == chunk[k].line
             n == chunk[k].n
             ix == IndexMapper(AsInt32(ln.L, d0, ub), AsInt32(ln.R, d1, ub), Ring)
             cc1 == AddAt32(acc.cc, ix.idl, n)
             cc2 == AddAt32(cc1, ix.idr_global, n)
             lc == AddAt16(acc.lc, ix.idl, ix.idr_local, n)
         IN ApplyRuns([cc |-> cc2, lc |-> lc,
                       ty |-> [acc.ty EXCEPT ![ix.idl][ix.idr_local] = @ + n],
                       nrec |-> acc.nrec + n,
                       bad |-> acc.bad + (IF Malformed(ln) THEN n ELSE 0)],
                      chunk, k + 1, d0, d1, ub)

-----------------------------------------------------------------------------
(* Lines 33-39: the top-K extraction *)

Cells == 0 .. (Ring * Ring - 1)

\* lorcounts[i].ravel()
Ravel(m) == [f \in Cells |-> m[f \div Ring][f % Ring]]

RECURSIVE Choose(_, _)
\* the subsets of S with n elements
Choose(S, n) ==
    IF n = 0 THEN { {} }
    ELSE UNION { { T \cup {x} : T \in Choose({ y \in S : y > x }, n - 1) } : x \in S }

\* np.argpartition(a, -k)[-k:]: any k indices such that no value outside exceeds a value
\* inside; which of several equal values at the boundary are taken is not specified
ArgPartitionTail(a, k) ==
    LET v == CHOOSE t \in { a[f] : f \in Cells } :
                 /\ Cardinality({ f \in Cells : a[f] > t }) < k
                 /\ Cardinality({ f \in Cells : a[f] >= t }) >= k
        hi == { f \in Cells : a[f] > v }
    IN { hi \cup T : T \in Choose({ f \in Cells : a[f] = v }, k - Cardinality(hi)) }

RECURSIVE Ascending(_, _)
\* argsort without the reversal
Ascending(a, S) ==
    IF S = {} THEN { << >> }
    ELSE UNION { { <<x>> \o q : q \in Ascending(a, S \ {x}) } :
                 x \in { y \in S : \A z \in S : a[y] <= a[z] } }
RECURSIVE ArgSortReversed(_, _)
\* flat_indices[np.argsort(a[flat_indices])[::-1]]: the indices by value, largest first;
\* the sort is not stable, so equal values come in any order
ArgSortReversed(a, S) ==
    IF S = {} THEN { << >> }
    ELSE UNION { { <<x>> \o q : q \in ArgSortReversed(a, S \ {x}) } :
                 x \in { y \in S : \A z \in S : a[y] >= a[z] } }

\* the flat index read column-major
UnravelColumnMajor(f) == <<f % Ring, f \div Ring>>
\* np.unravel_index
UnravelIndex(f) == <<f \div Ring, f % Ring>>

\* lines 35-39: the rows stored for an order of flat indices (stored as int16)
TopRows(m, order) ==
    [k \in 1..K |-> << Add16(0, UnravelIndex(order[k])[1]),
                       Add16(0, UnravelIndex(order[k])[2]),
                       m[UnravelIndex(order[k])[1]][UnravelIndex(order[k])[2]] >>]

\* every result lines 33-39 can produce for the matrix m
TopKExtractor(m) ==
    UNION { { TopRows(m, order) : order \in ArgSortReversed(Ravel(m), S) } :
            S \in ArgPartitionTail(Ravel(m), K) }

-----------------------------------------------------------------------------
(* The binary artifacts: ndarray.tofile writes the elements in C order, each in
   the machine's byte order (little-endian here), two's complement; np.frombuffer
   reads them back the same way *)

\* the w bytes of one element, least significant first
BytesOf(v, w) == [k \in 1..w |-> (v \div (256 ^ (k - 1))) % 256]

\* tofile of a flat array (indexed from 0) whose elements are w bytes wide
ToFile(a, w) ==
    [b \in 1..(Cardinality(DOMAIN a) * w) |-> BytesOf(a[(b - 1) \div w], w)[((b - 1) % w) + 1]]

ToFile8(a) == ToFile(a, 1)

\* line 45: channelcounts[i].tofile, int32
ToFile32(a) == ToFile(a, 4)

\* lines 49 and 53: lorcounts[i].tofile and toplors[i].tofile, int16
ToFile16(a) == ToFile(a, 2)

\* the K x 3 top list in C order
RavelRows(rows) == [f \in 0..(Len(rows) * 3 - 1) |-> rows[(f \div 3) + 1][(f % 3) + 1]]

RECURSIVE ValueOfBigEndian(_, _, _)
ValueOfBigEndian(bytes, from, w) ==
    IF w = 1
      THEN bytes[from]
      ELSE (IF bytes[from] >= 128 THEN bytes[from] - 256 ELSE bytes[from]) * (256 ^ (w - 1))
           + ValueOfBigEndian(bytes, from + 1, w - 1)

\* one element read back: the top byte carries the sign
RECURSIVE ValueOf(_, _, _)
ValueOf(bytes, from, w) ==
    IF w = 1
      THEN (IF bytes[from] >= 128 THEN bytes[from] - 256 ELSE bytes[from])
      ELSE bytes[from] + 256 * ValueOf(bytes, from + 1, w - 1)

\* np.frombuffer(data, dtype) of a buffer whose length is a multiple of w
FromBuffer(bytes, w) == [e \in 0..((Len(bytes) \div w) - 1) |-> ValueOf(bytes, (e * w) + 1, w)]

-----------------------------------------------------------------------------
(* The visualization as constructed: setup_crystal_visualization and MainWindow *)

\* scannertest.py line 43: num_crystals, the rows of the scanner map (6144 in the source's
\* geometry: two sides of 3072)
NumCrystals == 2 * Ring
Crystals == 0 .. (NumCrystals - 1)

\* scannertest.py line 53: hovered_crystal = None
NoCrystal == -1

\* scannertest.py lines 96-106: every crystal is a box of CellsPerCrystal cells, each
\* labelled with the crystal's id
MeshCells == 0 .. (NumCrystals * CellsPerCrystal - 1)
CrystalOfCell(cell) == cell \div CellsPerCrystal

\* a float scalar: an event count, or half of one
Scalar(n) == [n |-> n, halved |-> FALSE]

\* x * 0.5
Half(x) == IF x.n = 0 THEN x ELSE [n |-> x.n, halved |-> TRUE]

\* a connection's count when it was drawn by a click (count=None)
NoCount == [some |-> FALSE, v |-> 0]

NoOp == [name |-> "none", arg |-> 0, ret |-> 0]

\* MainWindow.event_counts = None
NoCounts == [set |-> FALSE, values |-> << >>]

\* scannertest.py lines 52-60 and qtuitest.py lines 229, 256-259
SceneInit ==
    /\ top_n_spin = DefaultTopN
    /\ draw_mode_enabled = FALSE
    /\ connections = << >>
    /\ connection_counter = 0
    /\ selected_crystals = << >>
    /\ draw_mode = FALSE
    /\ last_op = NoOp

\* scannertest.py lines 77-87 and 162-173; qtuitest.py lines 49, 156 and 166
HoverInit ==
    /\ hovered_crystal = NoCrystal
    /\ event_counts = [c \in Crystals |-> 0]
    /\ event_count_scalars = [cell \in MeshCells |-> Scalar(0)]
    /\ original_event_count_scalars = [cell \in MeshCells |-> Scalar(0)]
    /\ self_event_counts = NoCounts
    /\ update_event_counts_func = TRUE
    /\ counts_raw = NoRaw
    /\ counts_dialog = "none"

GuiInit == LorInit /\ SceneInit /\ HoverInit

-----------------------------------------------------------------------------
(* The script *)

NFiles == Len(coinc_dat_files)
FirstFile == coinc_dat_files[1]
File == coinc_dat_files[i]

InitRun(dir) ==
    /\ coinc_dat_files = dir
    /\ i = 1
    /\ pc = IF Len(dir) = 0 THEN "exit" ELSE "chunk"
    /\ pos = 0
    /\ channelcounts = [j \in 1..Len(dir) |-> ZeroChannels]
    /\ lorcounts = [j \in 1..Len(dir) |-> ZeroMatrix]
    /\ toplors = [j \in 1..Len(dir) |-> ZeroTop]
    /\ records = [j \in 1..Len(dir) |-> 0]
    /\ tally = [j \in 1..Len(dir) |-> ZeroMatrix]
    /\ skipped = [j \in 1..Len(dir) |-> 0]

Init ==
    /\ \E f \in DatFiles : InitRun(<<f>>)
    /\ disk = [j \in 1..1 |-> NoFile]
    /\ run = 1
    /\ prev = disk
    /\ raw = <<I64(0), I64(0)>>
    /\ mapped = NoResult
    /\ GuiInit

\* read_csv cannot set up the reader: the file is empty (EmptyDataError), or its first
\* line has too few fields for usecols=[4, 9] (ParserError)
CannotOpen(f) == IF NLines(f) = 0 THEN TRUE ELSE f[1].line.short

NextChunk == ChunkAt(File, pos, Min2(pos + CHUNKSIZE, NLines(File)))
Dtype0(chunk) == ColDtype({ chunk[k].line.L : k \in 1..Len(chunk) })
Dtype1(chunk) == ColDtype({ chunk[k].line.R : k \in 1..Len(chunk) })
HasUndefinedCast(chunk) ==
    \E k \in 1..Len(chunk) :
        \/ chunk[k].line.L.kind = "missing"
        \/ chunk[k].line.R.kind = "missing"

\* line 23 raises before the first chunk
OpenFail ==
    /\ pc = "chunk" /\ pos = 0
    /\ CannotOpen(File)
    /\ pc' = "crashed"
    /\ UNCHANGED <<coinc_dat_files, i, pos, channelcounts, lorcounts, toplors, disk,
                   records, tally, skipped, run, prev, raw, mapped, guiVars>>

\* line 24 or 25 raises ValueError: a column of the chunk holds text
ParseFail ==
    /\ pc = "chunk" /\ ~CannotOpen(File) /\ pos < NLines(File)
    /\ "object" \in {Dtype0(NextChunk), Dtype1(NextChunk)}
    /\ pc' = "crashed"
    /\ UNCHANGED <<coinc_dat_files, i, pos, channelcounts, lorcounts, toplors, disk,
                   records, tally, skipped, run, prev, raw, mapped, guiVars>>

\* lines 23-29: one chunk is read and applied to both accumulators
ReadChunk ==
    /\ pc = "chunk" /\ ~CannotOpen(File) /\ pos < NLines(File)
    /\ "object" \notin {Dtype0(NextChunk), Dtype1(NextChunk)}
    /\ \E ub \in (IF HasUndefinedCast(NextChunk) THEN UndefinedCasts ELSE {0}) :
         LET acc == ApplyRuns([cc |-> channelcounts[i], lc |-> lorcounts[i], ty |-> tally[i],
                               nrec |-> records[i], bad |-> skipped[i]],
                              NextChunk, 1, Dtype0(NextChunk), Dtype1(NextChunk), ub)
         IN /\ channelcounts' = [channelcounts EXCEPT ![i] = acc.cc]
            /\ lorcounts' = [lorcounts EXCEPT ![i] = acc.lc]
            /\ tally' = [tally EXCEPT ![i] = acc.ty]
            /\ records' = [records EXCEPT ![i] = acc.nrec]
            /\ skipped' = [skipped EXCEPT ![i] = acc.bad]
    /\ pos' = Min2(pos + CHUNKSIZE, NLines(File))
    /\ UNCHANGED <<coinc_dat_files, i, pc, toplors, disk, run, prev, raw, mapped, guiVars>>

\* lines 33-39, once the chunks are exhausted
Extract ==
    /\ pc = "chunk" /\ ~CannotOpen(File) /\ pos = NLines(File)
    /\ \E rows \in TopKExtractor(lorcounts[i]) : toplors' = [toplors EXCEPT ![i] = rows]
    /\ pc' = "save"
    /\ UNCHANGED <<coinc_dat_files, i, pos, channelcounts, lorcounts, disk,
                   records, tally, skipped, run, prev, raw, mapped, guiVars>>

\* lines 43-53: the bytes of the three artifacts of one file
Artifacts(cc, lc, tl) ==
    [ccounts |-> ToFile32(cc), lcounts |-> ToFile16(Ravel(lc)), toplors |-> ToFile16(RavelRows(tl))]

\* lines 43-53: the three artifacts of file i are written; then the next file
Save ==
    /\ pc = "save"
    /\ disk' = [disk EXCEPT ![i] = Artifacts(channelcounts[i], lorcounts[i], toplors[i])]
    /\ IF i < NFiles
         THEN i' = i + 1 /\ pos' = 0 /\ pc' = "chunk"
         ELSE i' = i /\ pos' = pos /\ pc' = "exit"
    /\ UNCHANGED <<coinc_dat_files, channelcounts, lorcounts, toplors,
                   records, tally, skipped, run, prev, raw, mapped, guiVars>>

Next == OpenFail \/ ParseFail \/ ReadChunk \/ Extract \/ Save

Spec == Init /\ [][Next]_vars

-----------------------------------------------------------------------------
(* The script run a second time on the unchanged directory *)

RerunFiles == SeqsUpTo(CoreRuns, 1) \cup SpecialFiles

InitRerun ==
    /\ \E f \in RerunFiles : InitRun(<<f>>)
    /\ disk = [j \in 1..1 |-> NoFile]
    /\ run = 1
    /\ prev = disk
    /\ raw = <<I64(0), I64(0)>>
    /\ mapped = NoResult
    /\ GuiInit

\* lines 15-20 again: the same .dat files, fresh arrays; the artifacts of the first
\* execution are still on disk until they are overwritten
Rerun ==
    /\ pc \in {"exit", "crashed"} /\ run = 1
    /\ run' = 2
    /\ prev' = disk
    /\ i' = 1
    /\ pc' = IF NFiles = 0 THEN "exit" ELSE "chunk"
    /\ pos' = 0
    /\ channelcounts' = [j \in 1..NFiles |-> ZeroChannels]
    /\ lorcounts' = [j \in 1..NFiles |-> ZeroMatrix]
    /\ toplors' = [j \in 1..NFiles |-> ZeroTop]
    /\ records' = [j \in 1..NFiles |-> 0]
    /\ tally' = [j \in 1..NFiles |-> ZeroMatrix]
    /\ skipped' = [j \in 1..NFiles |-> 0]
    /\ UNCHANGED <<coinc_dat_files, disk, raw, mapped, guiVars>>

NextRerun == Next \/ Rerun

SpecRerun == InitRerun /\ [][NextRerun]_vars

-----------------------------------------------------------------------------
(* A directory of several .dat files, on a file system whose writes can fail *)

InitBatch ==
    /\ \E dir \in SeqsUpTo(BatchFiles, MaxFiles) :
           /\ InitRun(dir)
           /\ disk = [j \in 1..Len(dir) |-> NoFile]
    /\ run = 1
    /\ prev = disk
    /\ raw = <<I64(0), I64(0)>>
    /\ mapped = NoResult
    /\ GuiInit

ArtifactNames == <<"ccounts", "lcounts", "toplors">>

\* lines 43-53 when the n+1-th write raises OSError: the first n artifacts are complete;
\* the one that failed is either not created (open raised) or created empty (tofile raised)
PartialArtifacts(full, n, created) ==
    [nm \in { ArtifactNames[k] : k \in 1..(IF created THEN n + 1 ELSE n) } |->
        IF nm \in { ArtifactNames[k] : k \in 1..n } THEN full[nm] ELSE << >>]

\* lines 43-53: a write fails; the exception is not caught and the script ends
SaveFail ==
    /\ pc = "save"
    /\ \E n \in 0..2, created \in BOOLEAN :
         disk' = IF n = 0 /\ ~created
                   THEN disk
                   ELSE [disk EXCEPT ![i] = PartialArtifacts(
                            Artifacts(channelcounts[i], lorcounts[i], toplors[i]), n, created)]
    /\ pc' = "crashed"
    /\ UNCHANGED <<coinc_dat_files, i, pos, channelcounts, lorcounts, toplors,
                   records, tally, skipped, run, prev, raw, mapped, guiVars>>

NextBatch == Next \/ SaveFail

SpecBatch == InitBatch /\ [][NextBatch]_vars

-----------------------------------------------------------------------------
(* The index arithmetic alone *)

InitMapper ==
    /\ raw \in RawIds \X RawIds
    /\ mapped = NoResult
    /\ GuiInit
    /\ coinc_dat_files = << >> /\ i = 1 /\ pc = "exit" /\ pos = 0
    /\ channelcounts = << >> /\ lorcounts = << >> /\ toplors = << >> /\ disk = << >>
    /\ records = << >> /\ tally = << >> /\ skipped = << >> /\ run = 1 /\ prev = << >>

MapPair ==
    /\ mapped = NoResult
    /\ mapped' = IndexMapper(Narrow32(raw[1]), Narrow32(raw[2]), RING)
    /\ UNCHANGED <<raw, pipeVars, guiVars>>

SpecMapper == InitMapper /\ [][MapPair]_vars

-----------------------------------------------------------------------------
(* The visualization's import of a top list: MainWindow.import_top_lors *)

SampleRows == { <<0, 0, 2>>, <<3, 1, 1>>, <<1, 2, MinInt16>> }

\* the bytes tofile writes for a list of rows
TopLorsBytes(rows) == ToFile16(RavelRows(rows))

\* n rows, alternating two of the samples
FirstRows(n) == [k \in 1..n |-> IF k % 2 = 1 THEN <<0, 0, 2>> ELSE <<3, 1, 1>>]

\* the files offered to the import: every file of exactly K sample rows, each of them with
\* one more row, files of fewer than K rows, a file one value short of K rows, a file of K
\* rows and one more value, and a file with an odd number of bytes
LorFiles ==
    { TopLorsBytes(r) : r \in [1..K -> SampleRows] }
    \cup { TopLorsBytes(Append(r, <<3, 1, 1>>)) : r \in [1..K -> SampleRows] }
    \cup { TopLorsBytes(FirstRows(n)) : n \in 0..(K - 1) }
    \cup { SubSeq(TopLorsBytes(FirstRows(K)), 1, (K * 3) * 2 - 2),
           TopLorsBytes(FirstRows(K)) \o <<1, 0>>,
           Append(TopLorsBytes(FirstRows(K)), 7) }

\* reshape(-1, 3) of the whole array, nothing trimmed
ReshapeAll(a) ==
    [k \in 1..(Cardinality(DOMAIN a) \div 3) |-> <<a[3 * (k - 1)], a[3 * (k - 1) + 1], a[3 * (k - 1) + 2]>>]

\* qtuitest.py line 413: arr[:3000].reshape(1000, 3).astype(np.int32), then tolist (line 416)
TrimReshape(a) ==
    [k \in 1..K |-> <<a[3 * (k - 1)], a[3 * (k - 1) + 1], a[3 * (k - 1) + 2]>>]

\* qtuitest.py line 409: np.frombuffer(raw, dtype=np.int16) raises ValueError when the
\* buffer is not a whole number of elements
FromBufferRaises(bytes) == Len(bytes) % 2 # 0

\* qtuitest.py lines 410-411: arr.size < 3000 raises ValueError
TooSmall(bytes) == Len(bytes) \div 2 < K * 3

\* qtuitest.py line 435: QTimer.start on the single-shot timer starts it, or restarts it
\* when it is running; the starts since it last fired
Started(timer, n) == IF timer = "running" THEN Min2(n + 1, MaxBurst) ELSE 1

\* the timer is started whether or not a list is loaded
schedule_unconditionally(loaded, timer) == "running"

\* qtuitest.py lines 431-435: schedule_top_lors_render, the state of the timer after it
schedule_top_lors_render(loaded, timer) == IF loaded.loaded THEN "running" ELSE timer

\* qtuitest.py lines 406-422 on a file, one of files, that could be read
ImportTopLorsFrom(files) ==
    \E bytes \in files :
        /\ lor_raw' = [read |-> TRUE, bytes |-> bytes]
        /\ IF FromBufferRaises(bytes) \/ TooSmall(bytes)
             THEN \* lines 423-428: the exception is caught, nothing was stored
                  /\ lor_dialog' = "critical"
                  /\ UNCHANGED <<loaded_lor_data, top_n_timer, renders, burst>>
             ELSE \* lines 413-422; schedule_top_lors_render(0) starts the timer (line 435)
                  /\ loaded_lor_data' = [loaded |-> TRUE, rows |-> TrimReshape(FromBuffer(bytes, 2))]
                  /\ top_n_timer' = schedule_top_lors_render(loaded_lor_data', top_n_timer)
                  /\ renders' = 0
                  /\ burst' = Started(top_n_timer, burst)
                  /\ lor_dialog' = "information"
        /\ UNCHANGED <<raw, mapped, pipeVars, sceneVars, hoverVars>>

ImportTopLors == ImportTopLorsFrom(LorFiles)

\* qtuitest.py lines 406-408 raise (the file cannot be opened or read): lines 423-428
ImportTopLorsUnreadable ==
    /\ lor_raw' = NoRaw
    /\ lor_dialog' = "critical"
    /\ UNCHANGED <<loaded_lor_data, top_n_timer, renders, burst, raw, mapped, pipeVars, sceneVars, hoverVars>>

InitImport ==
    /\ GuiInit
    /\ raw = <<I64(0), I64(0)>>
    /\ mapped = NoResult
    /\ coinc_dat_files = << >> /\ i = 1 /\ pc = "exit" /\ pos = 0
    /\ channelcounts = << >> /\ lorcounts = << >> /\ toplors = << >> /\ disk = << >>
    /\ records = << >> /\ tally = << >> /\ skipped = << >> /\ run = 1 /\ prev = << >>

NextImport == ImportTopLors \/ ImportTopLorsUnreadable

SpecImport == InitImport /\ [][NextImport]_vars

-----------------------------------------------------------------------------
(* The connections of the scene: scannertest.py add_connection, delete_connection,
   clear_all_connections, on_mouse_click, set_draw_mode, render_top_lors; and the
   debounced top-N rendering of qtuitest.py *)

\* what add_connection returns when it does not create a connection (None)
NoId == -1

\* scannertest.py lines 284-287: a connection of the two crystals exists, in either order
PairExists(conns, a, b) ==
    \E k \in 1..Len(conns) : conns[k].crystal_ids \in {<<a, b>>, <<b, a>>}

\* add_connection without the test for an existing connection
add_connection_unchecked(st, a, b, count) ==
    IF a = b THEN [st EXCEPT !.ret = NoId]
    ELSE [conns |-> Append(st.conns, [id |-> st.counter, crystal_ids |-> <<a, b>>, count |-> count]),
          counter |-> st.counter + 1,
          ret |-> st.counter]

\* scannertest.py lines 277-316, on st = [conns, counter, ret]
add_connection(st, a, b, count) ==
    IF a = b THEN [st EXCEPT !.ret = NoId]
    ELSE IF PairExists(st.conns, a, b) THEN [st EXCEPT !.ret = NoId]
    ELSE [conns |-> Append(st.conns, [id |-> st.counter, crystal_ids |-> <<a, b>>, count |-> count]),
          counter |-> st.counter + 1,
          ret |-> st.counter]

\* delete_connection that takes the connection at list position id
delete_by_position(conns, id) ==
    IF id + 1 \in 1..Len(conns)
      THEN [conns |-> SubSeq(conns, 1, id) \o SubSeq(conns, id + 2, Len(conns)), ret |-> 1]
      ELSE [conns |-> conns, ret |-> 0]

\* scannertest.py lines 319-328: the first connection with that id is removed (True), or
\* nothing is (False)
delete_connection(conns, id) ==
    IF \E k \in 1..Len(conns) : conns[k].id = id
      THEN LET k == CHOOSE n \in 1..Len(conns) :
                        conns[n].id = id /\ \A m \in 1..(n - 1) : conns[m].id # id
           IN [conns |-> SubSeq(conns, 1, k - 1) \o SubSeq(conns, k + 1, Len(conns)), ret |-> 1]
      ELSE [conns |-> conns, ret |-> 0]

\* scannertest.py lines 331-337
clear_all_connections(conns) == << >>

\* the triples in the order given, not sorted
Unsorted(pairs, n) == SubSeq(pairs, 1, n)

\* the place of the k-th of n triples after a stable sort by descending count: behind the
\* triples of higher count and behind the earlier triples of the same count
Rank(pairs, n, k) ==
    1 + Cardinality({ j \in 1..n : pairs[j][3] > pairs[k][3] })
      + Cardinality({ j \in 1..(k - 1) : pairs[j][3] = pairs[k][3] })

\* scannertest.py line 473: list.sort(key=count, reverse=True) of the first n triples; the
\* sort is stable, equal counts keep their order
SortByCountDescending(pairs, n) ==
    [p \in 1..n |-> pairs[CHOOSE k \in 1..n : Rank(pairs, n, k) = p]]

\* F applied to the value of v, v evaluated once
With(v, F(_)) == CHOOSE r \in { F(x) : x \in {v} } : TRUE

\* scannertest.py lines 479-484 for the triples k.. of sel
RECURSIVE DrawPairs(_, _, _)
DrawPairs(st, sel, k) ==
    IF k > Len(sel) THEN st
    ELSE LET l_id == sel[k][1]
             target_r == sel[k][2] + Ring
         IN IF l_id < 0 \/ target_r < 0 \/ l_id >= NumCrystals \/ target_r >= NumCrystals
              THEN DrawPairs(st, sel, k + 1)
              ELSE With(add_connection(st, l_id, target_r, [some |-> TRUE, v |-> sel[k][3]]),
                        LAMBDA drawn : DrawPairs(drawn, sel, k + 1))

\* scannertest.py lines 447-490 with clear_existing=True and right_offset=True, on a list
\* of triples: the state after the call, ret the number of triples selected
render_top_lors(st, pairs, top_n) ==
    IF Len(pairs) = 0 THEN [st EXCEPT !.ret = 0]
    ELSE With(SubSeq(SortByCountDescending(pairs, Len(pairs)), 1, Min2(Max2(1, top_n), Len(pairs))),
              LAMBDA sel :
                  [DrawPairs([st EXCEPT !.conns = clear_all_connections(st.conns)], sel, 1)
                      EXCEPT !.ret = Len(sel)])

\* the crystals the modelled mouse clicks on
ClickTargets == {0, Ring}

\* rows of imported top lists: in range, right id out of range, a pair listed twice, a row
\* whose right crystal is its left crystal, a negative left id
SceneSamples ==
    << <<0, 0, 1>>, <<1, NumCrystals, 5>>, <<1, 1, 3>>, <<0, 0, 3>>, <<Ring, 0, 4>>, <<-1, 2, 4>> >>

SceneRows(shift) == [k \in 1..K |-> SceneSamples[((k - 1 + shift) % Len(SceneSamples)) + 1]]

\* the top-list files offered to the import while the scene is used
SceneLorFiles == { TopLorsBytes(SceneRows(0)), TopLorsBytes(SceneRows(3)) }

Scene == [conns |-> connections, counter |-> connection_counter, ret |-> NoId]

\* a click is ignored only when it picks no crystal
IgnoredOffMesh(c) == c = NoCrystal

\* scannertest.py lines 361-362 and 369-372: draw mode is off, or no cell of the mesh is picked
Ignored(c) == ~draw_mode \/ c = NoCrystal

\* scannertest.py lines 357-396: a left click on a cell of crystal c, or beside the mesh
on_mouse_click ==
    /\ connection_counter < MaxIds
    /\ \E c \in ClickTargets \cup {NoCrystal} :
         IF Ignored(c)
           THEN /\ last_op' = [name |-> "click", arg |-> c, ret |-> NoId]
                /\ UNCHANGED <<connections, connection_counter, selected_crystals>>
           ELSE IF Len(selected_crystals) = 1
             THEN LET st == IF c # selected_crystals[1]
                              THEN add_connection(Scene, selected_crystals[1], c, NoCount)
                              ELSE Scene
                  IN /\ connections' = st.conns
                     /\ connection_counter' = st.counter
                     /\ selected_crystals' = << >>
                     /\ last_op' = [name |-> "click", arg |-> c, ret |-> st.ret]
             ELSE /\ selected_crystals' = <<c>>
                  /\ last_op' = [name |-> "click", arg |-> c, ret |-> NoId]
                  /\ UNCHANGED <<connections, connection_counter>>
    /\ UNCHANGED <<top_n_spin, draw_mode_enabled, draw_mode>>
    /\ UNCHANGED <<lorVars, hoverVars, raw, mapped, pipeVars>>

\* qtuitest.py lines 591-599 and scannertest.py lines 441-445
toggle_draw_mode ==
    /\ draw_mode_enabled' = ~draw_mode_enabled
    /\ draw_mode' = draw_mode_enabled'
    /\ last_op' = [name |-> "set_draw_mode", arg |-> IF draw_mode_enabled' THEN 1 ELSE 0, ret |-> 0]
    /\ UNCHANGED <<top_n_spin, connections, connection_counter, selected_crystals>>
    /\ UNCHANGED <<lorVars, hoverVars, raw, mapped, pipeVars>>

\* qtuitest.py lines 581-584: a delete button of the list hands its id to delete_connection
DeleteConnection ==
    /\ \E id \in 0..(MaxIds - 1) :
         LET d == delete_connection(connections, id)
         IN /\ connections' = d.conns
            /\ last_op' = [name |-> "delete", arg |-> id, ret |-> d.ret]
    /\ UNCHANGED <<top_n_spin, draw_mode_enabled, connection_counter, selected_crystals, draw_mode>>
    /\ UNCHANGED <<lorVars, hoverVars, raw, mapped, pipeVars>>

\* qtuitest.py lines 586-589: the Clear button
ClearAllConnections ==
    /\ connections' = clear_all_connections(connections)
    /\ last_op' = [name |-> "clear", arg |-> 0, ret |-> 0]
    /\ UNCHANGED <<top_n_spin, draw_mode_enabled, connection_counter, selected_crystals, draw_mode>>
    /\ UNCHANGED <<lorVars, hoverVars, raw, mapped, pipeVars>>

\* qtuitest.py lines 256-259 and 431-435: the spin box changes value and
\* schedule_top_lors_render() restarts the 500 ms single-shot timer if a list is loaded
TopNChanged ==
    /\ connection_counter + K <= MaxIds
    /\ \E v \in 1..K :
         /\ v # top_n_spin
         /\ top_n_spin' = v
         /\ last_op' = [name |-> "spin", arg |-> v, ret |-> 0]
    /\ top_n_timer' = schedule_top_lors_render(loaded_lor_data, top_n_timer)
    /\ IF top_n_timer' = "running"
         THEN renders' = 0 /\ burst' = Started(top_n_timer, burst)
         ELSE UNCHANGED <<renders, burst>>
    /\ UNCHANGED <<draw_mode_enabled, connections, connection_counter, selected_crystals, draw_mode>>
    /\ UNCHANGED <<loaded_lor_data, lor_raw, lor_dialog, hoverVars, raw, mapped, pipeVars>>

\* qtuitest.py lines 437-449: the timer fires; update_top_lors_display_now renders the
\* loaded list with the spin box's current value
update_top_lors_display_now ==
    /\ top_n_timer = "running"
    /\ connection_counter + K <= MaxIds
    /\ top_n_timer' = "stopped"
    /\ IF ~loaded_lor_data.loaded
         THEN UNCHANGED <<connections, connection_counter, last_op, renders>>
         ELSE \E st \in {render_top_lors(Scene, loaded_lor_data.rows, top_n_spin)} :
                 /\ renders' = renders + 1
                 /\ connections' = st.conns
                 /\ connection_counter' = st.counter
                 /\ last_op' = [name |-> "render", arg |-> top_n_spin, ret |-> st.ret]
    /\ UNCHANGED <<top_n_spin, draw_mode_enabled, selected_crystals, draw_mode>>
    /\ UNCHANGED <<loaded_lor_data, lor_raw, lor_dialog, burst, hoverVars, raw, mapped, pipeVars>>

\* import_top_lors of one of the scene's files
LoadTopLors ==
    /\ connection_counter + K <= MaxIds
    /\ ImportTopLorsFrom(SceneLorFiles)

NextScene ==
    \/ LoadTopLors
    \/ on_mouse_click \/ toggle_draw_mode \/ DeleteConnection \/ ClearAllConnections
    \/ TopNChanged \/ update_top_lors_display_now

SpecScene == InitImport /\ [][NextScene]_vars

\* the debounce alone; a started Qt timer fires once the event loop runs
NextDebounce == LoadTopLors \/ TopNChanged \/ update_top_lors_display_now

SpecDebounce == InitImport /\ [][NextDebounce]_vars /\ WF_vars(update_top_lors_display_now)

-----------------------------------------------------------------------------
(* Properties *)

RECURSIVE SumUpTo(_, _, _)
SumUpTo(a, lo, hi) == IF hi < lo THEN 0 ELSE SumUpTo(a, lo, hi - 1) + a[hi]

Finished == pc \in {"save", "exit"}
FileIds == 1..NFiles

\* C1: the finished LOR matrix holds, in every cell, the exact number of lines of the
\* file whose mapped pair is that cell, also when a pair occurs more than 32767 times.
C1_ExactLorCounts ==
    Finished => \A l \in Side, r \in Side : lorcounts[i][l][r] = tally[i][l][r]

\* C2: after every chunk applied to a file, the channel counters sum to twice the number
\* of lines applied, one half on the left side and one half on the right side.
C2_ChannelSum ==
    \A j \in FileIds :
        /\ SumUpTo(channelcounts[j], 0, 2 * Ring - 1) = 2 * records[j]
        /\ SumUpTo(channelcounts[j], 0, Ring - 1) = records[j]
        /\ SumUpTo(channelcounts[j], Ring, 2 * Ring - 1) = records[j]

C2_TwoChunksApplied ==
    /\ pc = "chunk" /\ pos > CHUNKSIZE /\ records[i] = pos
    /\ SumUpTo(channelcounts[i], 0, 2 * Ring - 1) = 2 * pos

\* C3: no LOR cell wraps silently: every stored cell is a non-negative count, and a cell
\* that received more than 32767 increments means the run stopped with an error.
C3_NoSilentWrap ==
    \A j \in FileIds : \A l \in Side, r \in Side :
        /\ lorcounts[j][l][r] >= 0
        /\ lorcounts[j][l][r] <= MaxInt16
        /\ (tally[j][l][r] > MaxInt16 => pc = "crashed")

\* C4: for every raw pair (L, R), negative ids included, idl is in [0, 3071], idr_global
\* in [3072, 6143] and idr_local = idr_global - 3072 in [0, 3071].
C4_IndexInRange ==
    mapped # NoResult =>
        /\ mapped.idl \in 0 .. (RING - 1)
        /\ mapped.idr_global \in RING .. (2 * RING - 1)
        /\ mapped.idr_local = mapped.idr_global - RING
        /\ mapped.idr_local \in 0 .. (RING - 1)

C4_NegativeIdsMapped ==
    /\ raw = <<I64(-1), I64(-3073)>>
    /\ mapped # NoResult
    /\ mapped.idl = 1023
    /\ mapped.idr_global = 6143

\* C5: for every raw pair, also one that does not fit in 32 bits, the result is the
\* mathematical floor modulo: idl = floor_mod(L - 131072, 3072) and
\* idr_global = floor_mod(R, 3072) + 3072.
C5_EqualsFloorMod ==
    mapped # NoResult =>
        /\ mapped.idl = floor_mod_minus(raw[1], OFFSET, RING)
        /\ mapped.idr_global = floor_mod(raw[2], RING) + RING

\* C6: the rows of the top list are in non-increasing order of count, each row (l, r, c)
\* has c = LORCountMatrix[l][r], and no cell outside the rows has a count greater than
\* the smallest count in the rows.
C6_TopKCorrect ==
    Finished =>
        LET rows == toplors[i]
            m == lorcounts[i]
            listed == { <<rows[k][1], rows[k][2]>> : k \in 1..K }
        IN /\ \A k \in 1 .. (K - 1) : rows[k][3] >= rows[k + 1][3]
           /\ \A k \in 1..K : rows[k][1] \in Side /\ rows[k][2] \in Side
                              /\ rows[k][3] = m[rows[k][1]][rows[k][2]]
           /\ \A l \in Side, r \in Side :
                  <<l, r>> \notin listed => \A k \in 1..K : m[l][r] <= rows[k][3]

C6_DistinctCountsListed ==
    /\ pc = "save"
    /\ toplors[i][1][3] > toplors[i][2][3]
    /\ toplors[i][2][3] > toplors[i][3][3]
    /\ \E l \in Side, r \in Side :
           /\ \A k \in 1..K : <<l, r>> # <<toplors[i][k][1], toplors[i][k][2]>>
           /\ lorcounts[i][l][r] = toplors[i][K][3]

WellFormed(f) == \A k \in 1..Len(f) : ~Malformed(f[k].line)

\* C7: every input, the empty file and files with fewer than K non-zero cells included,
\* yields a top list of exactly K rows, the rows beyond the populated cells holding a
\* zero count.
C7_AlwaysKRows ==
    (pc \in {"exit", "crashed"} /\ WellFormed(File)) =>
        /\ disk[i] # NoFile
        /\ Len(toplors[i]) = K
        /\ disk[i] # NoFile => disk[i].toplors = ToFile16(RavelRows(toplors[i]))
        /\ \A k \in 1..K :
               (\E l \in Side, r \in Side : lorcounts[i][l][r] # 0 /\ <<l, r>> = <<toplors[i][k][1], toplors[i][k][2]>>)
               \/ toplors[i][k][3] = 0

\* C8: two executions on the same unchanged input leave identical ccounts, lcounts and
\* toplors artifacts.
C8_RerunIdentical ==
    (run = 2 /\ pc = "exit") => disk = prev

ScenarioFile == << Rn(ValidA, 1), Rn(ValidB, 1), Rn(ValidA, 1) >>

C10_MalformedAborts ==
    \A j \in FileIds :
        /\ skipped[j] = 0
        /\ ~WellFormed(coinc_dat_files[j]) => disk[j] = NoFile

-----------------------------------------------------------------------------
(* Directories of several files *)

\* read_csv and the casts of lines 23-25 raise nothing on this file
Readable(f) ==
    /\ ~CannotOpen(f)
    /\ \A k \in 1..Len(f) : "text" \notin {f[k].line.L.kind, f[k].line.R.kind}

AllArtifacts == {"ccounts", "lcounts", "toplors"}

\* the three artifacts of file j exist and none of them is the empty file of a failed write
Written(j) ==
    IF disk[j] = NoFile THEN FALSE
    ELSE IF DOMAIN disk[j] # AllArtifacts THEN FALSE
    ELSE \A nm \in AllArtifacts : Len(disk[j][nm]) > 0

\* C11: a parse or I/O failure on one file is scoped to that file: every sibling that can
\* itself be read, earlier or later in the directory, ends fully written, and no artifact
\* already written is altered.
C11_FailureIsFileScoped ==
    /\ pc = "crashed" =>
           \A j \in FileIds : (j # i /\ Readable(coinc_dat_files[j])) => Written(j)
    /\ \A j \in FileIds : j < i => (disk[j] # NoFile /\ Written(j))

ZeroAcc == [cc |-> ZeroChannels, lc |-> ZeroMatrix, ty |-> ZeroMatrix, nrec |-> 0, bad |-> 0]

\* lines 23-29 applied to the lines of f from line p on, by a run that holds no other file
RECURSIVE AloneFrom(_, _, _)
AloneFrom(f, acc, p) ==
    IF p >= NLines(f) THEN acc
    ELSE LET chunk == ChunkAt(f, p, Min2(p + CHUNKSIZE, NLines(f)))
         IN AloneFrom(f, ApplyRuns(acc, chunk, 1, Dtype0(chunk), Dtype1(chunk), 0),
                      Min2(p + CHUNKSIZE, NLines(f)))

Alone(f) == AloneFrom(f, ZeroAcc, 0)

\* C12 (state part): every file starts from zeroed arrays, and the artifacts written for a
\* file are those a run on that file alone would write, whatever other files the directory
\* holds and in whatever order.
C12_OutputsOfFileAlone ==
    \A j \in FileIds :
        /\ (j > i \/ (j = i /\ pc = "chunk" /\ pos = 0)) =>
               /\ channelcounts[j] = ZeroChannels
               /\ lorcounts[j] = ZeroMatrix
               /\ toplors[j] = ZeroTop
        /\ Written(j) =>
               /\ disk[j].ccounts = ToFile32(Alone(coinc_dat_files[j]).cc)
               /\ disk[j].lcounts = ToFile16(Ravel(Alone(coinc_dat_files[j]).lc))
               /\ \E rows \in TopKExtractor(Alone(coinc_dat_files[j]).lc) :
                      disk[j].toplors = ToFile16(RavelRows(rows))

\* C12 (step part): a step taken while file i is processed changes neither the arrays nor
\* the artifacts of any other file.
C12_OtherFilesUntouched ==
    [][\A j \in FileIds : j # i =>
           /\ channelcounts'[j] = channelcounts[j]
           /\ lorcounts'[j] = lorcounts[j]
           /\ toplors'[j] = toplors[j]
           /\ disk'[j] = disk[j]]_vars

\* C12: both parts
C12_FileIsolation == []C12_OutputsOfFileAlone /\ C12_OtherFilesUntouched

C12_TwoDifferentFilesWritten ==
    /\ NFiles = 2 /\ pc = "exit"
    /\ coinc_dat_files[1] = WideFile /\ coinc_dat_files[2] = SmallFileReordered
    /\ Written(1) /\ Written(2)
    /\ disk[1].ccounts # disk[2].ccounts

\* file j went through the three writes of lines 43-53 without an exception
Processed(j) == j < i \/ (j = i /\ pc = "exit")

\* C13: for every successfully processed file the three artifacts hold exactly 2*Ring
\* 4-byte values, Ring x Ring 2-byte values and K x 3 2-byte values (6144, 3072 x 3072 and
\* 1000 x 3 in the source), every byte in 0..255.
C13_ArtifactSizes ==
    \A j \in FileIds : Processed(j) =>
        /\ disk[j] # NoFile
        /\ DOMAIN disk[j] = AllArtifacts
        /\ Len(disk[j].ccounts) = (2 * Ring) * 4
        /\ Len(disk[j].lcounts) = (Ring * Ring) * 2
        /\ Len(disk[j].toplors) = (K * 3) * 2
        /\ \A nm \in AllArtifacts : \A b \in 1..Len(disk[j][nm]) : disk[j][nm][b] \in 0..255

C13_WideCountersWritten ==
    /\ NFiles = 2 /\ pc = "exit"
    /\ coinc_dat_files[1] = LongFile /\ coinc_dat_files[2] = WideFile
    /\ Processed(1) /\ Processed(2)
    /\ Len(disk[1].ccounts) = (2 * Ring) * 4
    /\ disk[1].ccounts[3] > 0
    /\ disk[2].lcounts[2] = 128

-----------------------------------------------------------------------------
(* The artifacts read back by the visualization *)

\* the last 2*Ring values of the file instead of the first
ReadLastEventCounts(bytes) ==
    IF Len(bytes) < (2 * Ring) * 4
      THEN [ok |-> FALSE, values |-> << >>]
      ELSE [ok |-> TRUE, values |-> FromBuffer(SubSeq(bytes, Len(bytes) - (2 * Ring) * 4 + 1, Len(bytes)), 4)]

\* qtuitest.py lines 288-301: f.read(6144 * 4), the length test, np.frombuffer(int32)
ReadEventCounts(bytes) ==
    IF Len(bytes) < (2 * Ring) * 4
      THEN [ok |-> FALSE, values |-> << >>]
      ELSE [ok |-> TRUE, values |-> FromBuffer(SubSeq(bytes, 1, (2 * Ring) * 4), 4)]

Int32Samples == {MinInt32, -65536, -256, -1, 0, 1, 255, 256, 65535, 65536, 16777216, MaxInt32}

\* C14: the ccounts artifact read back as 2*Ring little-endian signed 4-byte integers, the
\* way import_event_counts reads it, is the channel-count array element by element; the
\* encoding and decoding of one element are inverse over the whole int32 range.
C14_CcountsRoundTrip ==
    /\ \A j \in FileIds : Processed(j) =>
           ReadEventCounts(disk[j].ccounts) = [ok |-> TRUE, values |-> channelcounts[j]]
    /\ \A v \in Int32Samples : ValueOf(BytesOf(v, 4), 1, 4) = v

C14_LargeCountReadBack ==
    /\ NFiles = 1 /\ pc = "exit"
    /\ coinc_dat_files[1] = LongFileReordered
    /\ channelcounts[1][0] = CHUNKSIZE
    /\ ReadEventCounts(disk[1].ccounts).ok
    /\ ReadEventCounts(disk[1].ccounts).values[0] = CHUNKSIZE
    /\ ReadEventCounts(disk[1].ccounts).values[Ring + 3] = 1

\* the 2-byte value e (from 0) of a file, little-endian two's complement
Int16At(bytes, e) ==
    LET u == bytes[2 * e + 1] + 256 * bytes[2 * e + 2]
    IN IF u >= MaxInt16 + 1 THEN u - Limb ELSE u

\* the first n rows of a file
RowsOfFile(bytes, n) ==
    [k \in 1..n |-> <<Int16At(bytes, 3 * (k - 1)), Int16At(bytes, 3 * (k - 1) + 1),
                      Int16At(bytes, 3 * (k - 1) + 2)>>]

\* the file last read holds a whole number of rows
WholeRows(bytes) == Len(bytes) % 6 = 0

\* C15 as stated: importing a top-list file of fewer than K rows succeeds and stores the
\* rows that are present; a file of more than K rows is cut to its first K rows.
C15_TruncatesGracefully ==
    (lor_raw.read /\ WholeRows(lor_raw.bytes)) =>
        /\ lor_dialog = "information"
        /\ loaded_lor_data =
               [loaded |-> TRUE,
                rows |-> RowsOfFile(lor_raw.bytes, Min2(Len(lor_raw.bytes) \div 6, K))]

\* a file the import accepts: a whole number of 2-byte values, at least 3*K of them
Accepted(bytes) == Len(bytes) % 2 = 0 /\ Len(bytes) >= (K * 3) * 2

\* C15, amended (state part): after an import, a file of at least K rows (3*K 2-byte
\* values, even byte length) has been stored as exactly its first K rows, with the render
\* timer started and a success message; any other file ended in an error message.
C15_ImportOutcome ==
    /\ lor_raw.read =>
           IF Accepted(lor_raw.bytes)
             THEN /\ lor_dialog = "information"
                  /\ top_n_timer = "running"
                  /\ loaded_lor_data = [loaded |-> TRUE, rows |-> RowsOfFile(lor_raw.bytes, K)]
             ELSE lor_dialog = "critical"
    /\ \A r \in [1..K -> SampleRows] :
           lor_raw = [read |-> TRUE, bytes |-> TopLorsBytes(Append(r, <<3, 1, 1>>))] =>
               loaded_lor_data.rows = r
    /\ loaded_lor_data.loaded => Len(loaded_lor_data.rows) = K

\* C15, amended (step part): an import of a file with fewer than K rows, with an odd
\* number of bytes, or that cannot be read, leaves the stored top list and the timer as
\* they were.
C15_RejectedImportKeepsData ==
    [][(~lor_raw'.read \/ ~Accepted(lor_raw'.bytes)) =>
           (loaded_lor_data' = loaded_lor_data /\ top_n_timer' = top_n_timer)]_vars

\* C15, amended: both parts
C15_AtLeastKRowsOrRejected == []C15_ImportOutcome /\ C15_RejectedImportKeepsData

\* a top list was stored, and a later import of a file of K - 1 rows was rejected and left it
C15_ShortFileRejected ==
    /\ lor_raw = [read |-> TRUE, bytes |-> TopLorsBytes(FirstRows(K - 1))]
    /\ lor_dialog = "critical"
    /\ loaded_lor_data = [loaded |-> TRUE, rows |-> [k \in 1..K |-> <<1, 2, MinInt16>>]]

-----------------------------------------------------------------------------
(* Order of the lines, chunking *)

\* the cell a well-formed line addresses
CellOf(line) ==
    LET ix == IndexMapper(Narrow32(line.L.v), Narrow32(line.R.v), Ring)
    IN <<ix.idl, ix.idr_local>>

\* how many of the lines of the first k runs of f address cell (l, r)
RECURSIVE LinesAt(_, _, _, _)
LinesAt(f, k, l, r) ==
    IF k = 0 THEN 0
    ELSE LinesAt(f, k - 1, l, r) + (IF CellOf(f[k].line) = <<l, r>> THEN f[k].n ELSE 0)

\* per cell, how many lines of f address it
LineCounts(f) == [l \in Side |-> [r \in Side |-> LinesAt(f, Len(f), l, r)]]

\* sum of row l of m, columns 0..r
RECURSIVE RowSum(_, _, _)
RowSum(m, l, r) == IF r < 0 THEN 0 ELSE RowSum(m, l, r - 1) + m[l][r]

\* sum of column r of m, rows 0..l
RECURSIVE ColumnSum(_, _, _)
ColumnSum(m, l, r) == IF l < 0 THEN 0 ELSE ColumnSum(m, l - 1, r) + m[l][r]

\* sum of rows 0..l of m
RECURSIVE MatrixSum(_, _)
MatrixSum(m, l) == IF l < 0 THEN 0 ELSE MatrixSum(m, l - 1) + RowSum(m, l, Ring - 1)

\* f and g hold the same lines, each the same number of times
SameLines(f, g) == WellFormed(f) /\ WellFormed(g) /\ LineCounts(f) = LineCounts(g)

\* all chunks of file j have been applied
Accumulated(j) == j < i \/ (j = i /\ pc \in {"save", "exit"})

\* C16: the final arrays of a file are a function of how many times each line occurs, not
\* of the order of the lines or of where the chunks cut: every LOR cell is the number of
\* lines addressing it reduced to int16, every channel counter is the number of lines on
\* that channel, and two files with the same lines in different orders end with equal
\* arrays.
C16_OrderIndependent ==
    /\ \A j \in FileIds : (Accumulated(j) /\ WellFormed(coinc_dat_files[j])) =>
           LET n == LineCounts(coinc_dat_files[j])
           IN /\ \A l \in Side, r \in Side : lorcounts[j][l][r] = Add16(0, n[l][r])
              /\ \A c \in Side :
                     /\ channelcounts[j][c] = RowSum(n, c, Ring - 1)
                     /\ channelcounts[j][Ring + c] = ColumnSum(n, Ring - 1, c)
    /\ \A j \in FileIds, k \in FileIds :
           (j < k /\ Accumulated(j) /\ Accumulated(k) /\ SameLines(coinc_dat_files[j], coinc_dat_files[k])) =>
               (channelcounts[j] = channelcounts[k] /\ lorcounts[j] = lorcounts[k])

C16_ReorderedWideFilesAgree ==
    /\ NFiles = 2 /\ pc = "exit"
    /\ coinc_dat_files = <<WideFile, WideFileReordered>>
    /\ lorcounts[1] = lorcounts[2]
    /\ lorcounts[2][0][0] = MinInt16
    /\ channelcounts[1] = channelcounts[2]

-----------------------------------------------------------------------------
(* Phases of one file *)

\* the accumulators of file j are allocated: the lists of lines 18-20 hold an array for it
Live(j) == j \in DOMAIN channelcounts /\ j \in DOMAIN lorcounts /\ j \in DOMAIN toplors

\* C18: the phases of a file come in a fixed order: its accumulators are allocated, zeroed,
\* when its processing starts; the top list is extracted once the last chunk is applied;
\* the artifacts are written only after the extraction; the accumulators are then released,
\* so that at most one file's accumulators are live at any time.
C18_PhasesAndRelease ==
    /\ pc \in {"chunk", "save"} =>
           /\ \A j \in FileIds : Live(j) => j = i
           /\ Cardinality({ j \in FileIds : Live(j) }) <= 1
    /\ (pc = "chunk" /\ pos = 0) => (channelcounts[i] = ZeroChannels /\ lorcounts[i] = ZeroMatrix)
    /\ \A j \in FileIds : toplors[j] # ZeroTop => Accumulated(j)
    /\ \A j \in FileIds : disk[j] # NoFile => (j < i \/ pc \in {"exit", "crashed"})

\* how many of the first p lines of f address cell (l, r), over the first k runs
RECURSIVE PrefixAt(_, _, _, _, _)
PrefixAt(f, k, p, l, r) ==
    IF k = 0 THEN 0
    ELSE PrefixAt(f, k - 1, p, l, r)
         + (IF CellOf(f[k].line) = <<l, r>>
              THEN Max2(0, Min2(f[k].n, p - NLinesUpTo(f, k - 1)))
              ELSE 0)

\* lines of file j delivered so far
Delivered(j) == IF j < i THEN NLines(coinc_dat_files[j]) ELSE IF j = i THEN pos ELSE 0

\* no line of f is one that read_csv turns into NaN or a float
NoCoercion(f) ==
    \A k \in 1..Len(f) :
        ~f[k].line.short /\ {f[k].line.L.kind, f[k].line.R.kind} \subseteq {"int", "text"}

\* C19: the chunk reader delivers every line exactly once and in file order: what has been
\* applied is always exactly the first pos lines of the file, cell by cell; the chunks
\* partition the file, every chunk but the last holding CHUNKSIZE lines; and when the
\* file is finished the number of lines applied is the number of lines of the file.
C19_ChunksPartitionFile ==
    \A j \in FileIds :
        /\ records[j] = Delivered(j)
        /\ Delivered(j) <= NLines(coinc_dat_files[j])
        /\ (j = i /\ pc = "chunk") => (pos = NLines(File) \/ pos % CHUNKSIZE = 0)
        /\ Accumulated(j) => records[j] = NLines(coinc_dat_files[j])
        /\ NoCoercion(coinc_dat_files[j]) =>
               \A l \in Side, r \in Side :
                   tally[j][l][r] = PrefixAt(coinc_dat_files[j], Len(coinc_dat_files[j]), Delivered(j), l, r)

C19_TwoChunksDelivered ==
    /\ pc = "save" /\ File = LongFileReordered
    /\ NLines(File) = CHUNKSIZE + 6
    /\ records[i] = CHUNKSIZE + 6
    /\ tally[i][0][0] = CHUNKSIZE /\ tally[i][3][1] = 3

-----------------------------------------------------------------------------
(* Marginals of the LOR matrix *)

\* no cell of file j has received more increments than int16 holds
NoOverflow(j) == \A l \in Side, r \in Side : tally[j][l][r] <= MaxInt16

\* C20: after every chunk, as long as no cell has overflowed, each row of the LOR matrix
\* sums to the left channel's counter, each column to the right channel's counter, and
\* all cells to the number of lines applied. The same holds at all times of the
\* increments themselves (the unbounded tally), of which each cell is the int16 residue.
C20_Marginals ==
    \A j \in FileIds :
        /\ NoOverflow(j) =>
               /\ \A l \in Side : RowSum(lorcounts[j], l, Ring - 1) = channelcounts[j][l]
               /\ \A r \in Side : ColumnSum(lorcounts[j], Ring - 1, r) = channelcounts[j][Ring + r]
               /\ MatrixSum(lorcounts[j], Ring - 1) = records[j]
        /\ \A l \in Side : RowSum(tally[j], l, Ring - 1) = channelcounts[j][l]
        /\ \A r \in Side : ColumnSum(tally[j], Ring - 1, r) = channelcounts[j][Ring + r]
        /\ MatrixSum(tally[j], Ring - 1) = records[j]
        /\ \A l \in Side, r \in Side : lorcounts[j][l][r] = Add16(0, tally[j][l][r])

C20_MarginalsAfterChunk ==
    /\ pc = "chunk" /\ pos = 10 /\ File = SmallFileReordered
    /\ NoOverflow(i)
    /\ records[i] = 10
    /\ RowSum(lorcounts[i], 0, Ring - 1) = 4 /\ channelcounts[i][0] = 4
    /\ ColumnSum(lorcounts[i], Ring - 1, 1) = 3 /\ channelcounts[i][Ring + 1] = 3

-----------------------------------------------------------------------------
(* The connections of the scene *)

\* the two crystals of the k-th connection, as a set
PairOf(conns, k) == {conns[k].crystal_ids[1], conns[k].crystal_ids[2]}

\* no connection of a crystal with itself, no two connections of the same two crystals
Simple(conns) ==
    /\ \A k \in 1..Len(conns) : conns[k].crystal_ids[1] # conns[k].crystal_ids[2]
    /\ \A j, k \in 1..Len(conns) : j # k => PairOf(conns, j) # PairOf(conns, k)

\* C21: whatever add_connection, delete_connection, clear_all_connections and
\* render_top_lors calls the handlers have made, the list holds no connection of a crystal
\* with itself and no two connections of the same unordered pair; and in that state an
\* add_connection of one crystal twice or of a pair already connected (in either order)
\* returns None and leaves the list and the id counter as they are, any other
\* add_connection appends one connection and keeps the list simple.
C21_NoSelfNoDuplicate ==
    /\ Simple(connections)
    /\ \A a, b \in Crystals :
         LET st == add_connection(Scene, a, b, NoCount)
         IN IF a = b \/ PairExists(connections, a, b)
              THEN st = Scene
              ELSE /\ Len(st.conns) = Len(connections) + 1
                   /\ st.counter = connection_counter + 1
                   /\ Simple(st.conns)

\* a connection of crystals 0 and Ring exists, drawn second by a render, and the click that
\* completed a pair in draw mode was turned down
C21_SecondClickTurnedDown ==
    /\ draw_mode
    /\ Len(connections) = 2
    /\ connections[2].crystal_ids = <<0, Ring>>
    /\ connections[2].count.some
    /\ last_op \in { [name |-> "click", arg |-> c, ret |-> NoId] : c \in ClickTargets }
    /\ selected_crystals = << >>
    /\ connection_counter > 2

\* the ids of the connections of a list
IdsOf(conns) == { conns[k].id : k \in 1..Len(conns) }

\* conns without the connections whose id is id
Without(conns, id) ==
    LET Keep(c) == c.id # id
    IN SelectSeq(conns, Keep)

\* C22 (state part): the connections listed have pairwise different ids, all of them issued
\* (below the counter); and delete_connection(id) evaluated in this state removes exactly
\* the connection with that id and returns True, or returns False and leaves the list.
C22_IdsUniqueDeleteExact ==
    /\ \A j, k \in 1..Len(connections) : j # k => connections[j].id # connections[k].id
    /\ \A k \in 1..Len(connections) : connections[k].id \in 0..(connection_counter - 1)
    /\ \A id \in 0..MaxIds :
         LET d == delete_connection(connections, id)
         IN IF id \in IdsOf(connections)
              THEN d.ret = 1 /\ d.conns = Without(connections, id)
                   /\ Len(d.conns) = Len(connections) - 1
              ELSE d.ret = 0 /\ d.conns = connections

\* C22 (step part): the counter never decreases, so no id is issued twice, not after a
\* deletion and not after Clear; every connection that a step creates has an id at least
\* the counter before the step, which is above every id issued before; and the step of a
\* delete button removes exactly the connection of its id, if there is one.
C22_IdsNeverReused ==
    [][/\ connection_counter' >= connection_counter
       /\ \A k \in 1..Len(connections') :
            connections'[k] \notin { connections[n] : n \in 1..Len(connections) } =>
                /\ connections'[k].id >= connection_counter
                /\ connections'[k].id < connection_counter'
       /\ (last_op'.name = "delete" /\ <<last_op, connections>>' # <<last_op, connections>>) =>
            /\ connections' = Without(connections, last_op'.arg)
            /\ connection_counter' = connection_counter
            /\ last_op'.ret = (IF last_op'.arg \in IdsOf(connections) THEN 1 ELSE 0)]_vars

\* C22: connection ids are unique and never reused, and delete_connection(id) removes
\* exactly the connection with that id (True) or changes nothing (False).
C22_UniqueIds == []C22_IdsUniqueDeleteExact /\ C22_IdsNeverReused

\* connection 0 was deleted after connection 1 had been created, and connection 1 remains
C22_FirstDeletedSecondKept ==
    /\ last_op = [name |-> "delete", arg |-> 0, ret |-> 1]
    /\ Len(connections) = 1
    /\ connections[1].id = 1

\* a step of on_mouse_click that can be told from doing nothing: no other handler leaves
\* "click" as the last operation while changing it, the selection or the connections
ClickStep ==
    /\ last_op'.name = "click"
    /\ <<last_op, selected_crystals, connections, connection_counter>>'
         # <<last_op, selected_crystals, connections, connection_counter>>

\* C23 (state part): the pending selection never holds more than one crystal, and the
\* scene's draw mode is the one the window shows.
C23_AtMostOnePending == Len(selected_crystals) <= 1 /\ draw_mode = draw_mode_enabled

\* C23 (step part): a click while draw mode is off, or beside the mesh, changes neither
\* the selection nor the connections; in draw mode a click on a crystal with nothing
\* pending makes it the pending one; a click on a second, different crystal empties the
\* selection and creates the connection of the two unless they are connected already, and
\* nothing else; a click on the pending crystal itself empties the selection and creates
\* nothing.
C23_ClickSteps ==
    [][ClickStep =>
         LET c == last_op'.arg
         IN IF ~draw_mode \/ c = NoCrystal
              THEN UNCHANGED <<selected_crystals, connections, connection_counter>>
              ELSE IF selected_crystals = << >>
                THEN /\ selected_crystals' = <<c>>
                     /\ UNCHANGED <<connections, connection_counter>>
                ELSE /\ selected_crystals' = << >>
                     /\ IF c = selected_crystals[1] \/ PairExists(connections, selected_crystals[1], c)
                          THEN UNCHANGED <<connections, connection_counter>> /\ last_op'.ret = NoId
                          ELSE /\ Len(connections') = Len(connections) + 1
                               /\ SubSeq(connections', 1, Len(connections)) = connections
                               /\ connections'[Len(connections')].crystal_ids = <<selected_crystals[1], c>>
                               /\ last_op'.ret = connections'[Len(connections')].id]_vars

\* C23: the click-to-connect state machine.
C23_ClickToConnect == []C23_AtMostOnePending /\ C23_ClickSteps

\* in draw mode the second click, on crystal Ring, connected the pending crystal 0 with it
C23_TwoClicksConnected ==
    /\ draw_mode
    /\ selected_crystals = << >>
    /\ Len(connections) = 1
    /\ connections[1].crystal_ids = <<0, Ring>>
    /\ connections[1].count = NoCount
    /\ last_op = [name |-> "click", arg |-> Ring, ret |-> connections[1].id]

-----------------------------------------------------------------------------
(* Rendering the top list *)

\* a step in which update_top_lors_display_now called render_top_lors
RenderStep == renders' = renders + 1

\* how many of the triples have a count above that of the k-th
Above(pairs, k) == Cardinality({ j \in 1..Len(pairs) : pairs[j][3] > pairs[k][3] })

\* how many of the triples other than the k-th have a count at least that of the k-th
AtLeast(pairs, k) == Cardinality({ j \in 1..Len(pairs) : j # k /\ pairs[j][3] >= pairs[k][3] })

\* the global ids of a triple are crystals of the scene
InRange(t) == t[1] \in Crystals /\ t[2] + Ring \in Crystals

-----------------------------------------------------------------------------
(* The debounce of the top-N rendering *)

\* C25 (state part): the timer runs only while a list is loaded, and while none is loaded
\* nothing has been rendered; since the timer was last started there has been no render
\* while it runs and exactly one once it has fired, however many times it was started
\* before it fired, and that render used the value the spin box holds.
C25_OneRenderPerBurst ==
    /\ top_n_timer = "running" => loaded_lor_data.loaded
    /\ ~loaded_lor_data.loaded =>
           renders = 0 /\ burst = 0 /\ connections = << >> /\ last_op.name # "render"
    /\ top_n_timer = "running" => renders = 0 /\ burst >= 1
    /\ (loaded_lor_data.loaded /\ top_n_timer = "stopped") =>
           /\ renders = 1
           /\ last_op.name = "render"
           /\ last_op.arg = top_n_spin

\* C25 (step part): a render happens only when the running timer fires, which stops it,
\* and draws the loaded list with the spin box's value of that moment; a change of the
\* spin box renders nothing itself and, if a list is loaded, leaves the timer running.
C25_RenderOnlyOnFire ==
    [][/\ RenderStep =>
            /\ top_n_timer = "running" /\ top_n_timer' = "stopped"
            /\ loaded_lor_data.loaded
            /\ last_op' = [name |-> "render", arg |-> top_n_spin,
                           ret |-> Min2(Max2(1, top_n_spin), Len(loaded_lor_data.rows))]
            /\ connections' = render_top_lors(Scene, loaded_lor_data.rows, top_n_spin).conns
       /\ connections' # connections => RenderStep
       /\ top_n_spin' # top_n_spin =>
            /\ ~RenderStep
            /\ top_n_timer' = (IF loaded_lor_data.loaded THEN "running" ELSE "stopped")]_vars

\* C25 (progress): a running timer fires, so every burst of changes is followed by its
\* render.
C25_BurstIsRendered == (top_n_timer = "running") ~> (top_n_timer = "stopped" /\ renders = 1)

\* C25: top-N rendering is debounced.
C25_Debounced == []C25_OneRenderPerBurst /\ C25_RenderOnlyOnFire /\ C25_BurstIsRendered

\* the timer was restarted at least once before it fired, and the one render that followed
\* used the value the spin box was changed to
C25_BurstRenderedOnce ==
    /\ burst >= 2
    /\ top_n_timer = "stopped"
    /\ renders = 1
    /\ top_n_spin # DefaultTopN
    /\ last_op.name = "render" /\ last_op.arg = top_n_spin
    /\ connection_counter = Len(connections)

-----------------------------------------------------------------------------
(* Hovering and the import of event counts: scannertest.py on_mouse_move and
   update_event_counts, qtuitest.py import_event_counts *)

\* what is shown: the stored counts, the displayed and the original per-cell scalars
Shown == [counts |-> event_counts, scalars |-> event_count_scalars,
          original |-> original_event_count_scalars]

\* scannertest.py lines 399-439: update_event_counts(new_counts), new_counts an int32 array
update_event_counts(new_counts) ==
    LET n == Cardinality(DOMAIN new_counts)
        counts == [c \in Crystals |-> IF c < n THEN new_counts[c] ELSE 0]
        scalars == [cell \in MeshCells |-> Scalar(counts[CrystalOfCell(cell)])]
    IN [counts |-> counts, scalars |-> scalars, original |-> scalars]

\* qtuitest.py lines 286-325 on a file that could be read, func telling whether
\* update_event_counts_func is set: the message box, MainWindow.event_counts and what is
\* shown afterwards
import_event_counts(bytes, func) ==
    LET read == ReadEventCounts(bytes)
    IN IF ~read.ok
         THEN [dialog |-> "warning", stored |-> self_event_counts, shown |-> Shown]
         ELSE IF func
           THEN [dialog |-> "information",
                 stored |-> [set |-> TRUE, values |-> read.values],
                 shown |-> update_event_counts(read.values)]
           ELSE [dialog |-> "warning", stored |-> self_event_counts, shown |-> Shown]

\* the crystals the modelled mouse moves over
HoverTargets == {0, 1, Ring}

\* count arrays of the files offered to the import
CountArrays ==
    { [c \in Crystals |-> c + 1],
      [c \in Crystals |-> IF c = 0 THEN 0 ELSE 2],
      [c \in Crystals |-> IF c = 1 THEN MinInt32 ELSE MaxInt32] }

\* the files offered: one per array, one with a value more than the scene has crystals,
\* one a byte short, one a value short, an empty one
CountFiles ==
    { ToFile32(a) : a \in CountArrays }
    \cup { ToFile32([c \in Crystals |-> c + 1]) \o BytesOf(7, 4),
           SubSeq(ToFile32([c \in Crystals |-> c + 1]), 1, NumCrystals * 4 - 1),
           SubSeq(ToFile32([c \in Crystals |-> c + 1]), 1, NumCrystals * 4 - 4),
           << >> }

\* scannertest.py lines 200-274: the mouse moves onto a cell of crystal c, or off the mesh
on_mouse_move ==
    /\ \E c \in HoverTargets \cup {NoCrystal} :
         IF c # NoCrystal
           THEN IF c # hovered_crystal
                  THEN /\ event_count_scalars' =
                            [cell \in MeshCells |->
                                IF CrystalOfCell(cell) = c
                                  THEN Half(original_event_count_scalars[cell])
                                  ELSE original_event_count_scalars[cell]]
                       /\ hovered_crystal' = c
                  ELSE UNCHANGED <<event_count_scalars, hovered_crystal>>
           ELSE IF hovered_crystal # NoCrystal
                  THEN /\ event_count_scalars' = original_event_count_scalars
                       /\ hovered_crystal' = NoCrystal
                  ELSE UNCHANGED <<event_count_scalars, hovered_crystal>>
    /\ UNCHANGED <<event_counts, original_event_count_scalars, self_event_counts,
                   update_event_counts_func, counts_raw, counts_dialog>>
    /\ UNCHANGED <<lorVars, sceneVars, raw, mapped, pipeVars>>

\* qtuitest.py lines 277-325: Import Event Counts on a file that could be read
ImportEventCounts ==
    /\ \E bytes \in CountFiles :
         LET r == import_event_counts(bytes, update_event_counts_func)
         IN /\ counts_raw' = [read |-> TRUE, bytes |-> bytes]
            /\ counts_dialog' = r.dialog
            /\ self_event_counts' = r.stored
            /\ event_counts' = r.shown.counts
            /\ event_count_scalars' = r.shown.scalars
            /\ original_event_count_scalars' = r.shown.original
    /\ UNCHANGED <<hovered_crystal, update_event_counts_func>>
    /\ UNCHANGED <<lorVars, sceneVars, raw, mapped, pipeVars>>

\* qtuitest.py lines 326-331: the file cannot be opened or read
ImportEventCountsUnreadable ==
    /\ counts_raw' = NoRaw
    /\ counts_dialog' = "critical"
    /\ UNCHANGED <<hovered_crystal, event_counts, event_count_scalars, original_event_count_scalars,
                   self_event_counts, update_event_counts_func>>
    /\ UNCHANGED <<lorVars, sceneVars, raw, mapped, pipeVars>>

NextHover == on_mouse_move \/ ImportEventCounts \/ ImportEventCountsUnreadable

SpecHover == InitImport /\ [][NextHover]_vars

-----------------------------------------------------------------------------
(* Hover darkening, the imported event counts *)

\* C26: hover darkening is consistent in every reachable state, over any interleaving of
\* mouse moves and update_event_counts calls: while no crystal is hovered the displayed
\* per-cell scalars are the original ones, and while crystal c is recorded as hovered
\* exactly the cells of c show half their original value and every other cell shows its
\* original value.
C26_HoverDarkeningConsistent ==
    IF hovered_crystal = NoCrystal
      THEN event_count_scalars = original_event_count_scalars
      ELSE \A cell \in MeshCells :
               event_count_scalars[cell] =
                   IF CrystalOfCell(cell) = hovered_crystal
                     THEN Half(original_event_count_scalars[cell])
                     ELSE original_event_count_scalars[cell]

\* the first 2*Ring values of a file of at least that many 4-byte values
FirstValues(bytes) == [c \in Crystals |-> ValueOf(bytes, 4 * c + 1, 4)]

\* what the window and the scene hold of the event counts
CountsHeld == <<self_event_counts, event_counts, event_count_scalars, original_event_count_scalars>>

\* C27 (state part): after an import from a file that could be read, a file shorter than
\* 2*Ring x 4 bytes has been answered with a warning; any other file has been stored, and
\* the stored counts, and the counts the scene shows, are the first 2*Ring values of the
\* file. And in this state the handler, run on any of the files with the update function
\* unavailable or on a short file, answers with a warning and leaves the stored and the
\* displayed counts as they are.
C27_ImportOutcome ==
    /\ counts_raw.read =>
         IF Len(counts_raw.bytes) < NumCrystals * 4
           THEN counts_dialog = "warning"
           ELSE /\ counts_dialog = "information"
                /\ self_event_counts = [set |-> TRUE, values |-> FirstValues(counts_raw.bytes)]
                /\ event_counts = FirstValues(counts_raw.bytes)
                /\ \A cell \in MeshCells :
                     original_event_count_scalars[cell] = Scalar(event_counts[CrystalOfCell(cell)])
    /\ \A bytes \in CountFiles : \A func \in BOOLEAN :
         (Len(bytes) < NumCrystals * 4 \/ ~func) =>
             import_event_counts(bytes, func) =
                 [dialog |-> "warning", stored |-> self_event_counts, shown |-> Shown]
    /\ update_event_counts_func

\* C27 (step part): an import that ends with a warning or an error message changes
\* neither the stored counts nor the displayed ones.
C27_RejectedImportKeepsCounts ==
    [][(<<counts_raw, counts_dialog>>' # <<counts_raw, counts_dialog>>
            /\ counts_dialog' # "information") => CountsHeld' = CountsHeld]_vars

\* C27: a short file, or an unavailable update function, is rejected with a warning and
\* changes nothing; a successful import stores the first 2*Ring values of the file.
C27_EventCountImport == []C27_ImportOutcome /\ C27_RejectedImportKeepsCounts

\* counts had been imported, and the import of a file one value short was then refused,
\* leaving them
C27_ShortFileRefused ==
    /\ counts_raw = [read |-> TRUE,
                     bytes |-> SubSeq(ToFile32([c \in Crystals |-> c + 1]), 1, NumCrystals * 4 - 4)]
    /\ counts_dialog = "warning"
    /\ self_event_counts = [set |-> TRUE, values |-> [c \in Crystals |-> IF c = 0 THEN 0 ELSE 2]]
    /\ event_counts = self_event_counts.values

====
